---- MODULE Spec2Model ----
(***************************************************************************)
(* GamBible ranking package: the MMR rating engine (ranking/MMR.py) and    *)
(* the Kelly stake sizer (ranking/bet.py).                                  *)
(*                                                                         *)
(* Python floats are modelled as fixed-point integers:                      *)
(*   - skills, deviations and performances are whole rating points;        *)
(*   - the diffusion factor kappa and tanh values are counted in 1/Q;      *)
(*   - performance weights are counted in 1/WQ;                            *)
(*   - accuracy contributions and Kelly fractions are exact rationals      *)
(*     <<numerator, denominator>> in lowest terms.                         *)
(* Python dicts are functions, lists are sequences.  copy() is a shallow   *)
(* copy: the scalar fields of a player dict are duplicated, the list       *)
(* fields stay shared with the live record.                                *)
(***************************************************************************)
EXTENDS Integers, Sequences, FiniteSets, TLC

\* ------------------------------------------------------------------ bounds
MaxGames == 2
MaxApply == 2
MaxBatch == 2
MaxRaised == 2

\* ------------------------------------------------------- program constants
START_SKILL == 1500
START_DEVIATION == 350

\* Fixed-point units of the float arithmetic.
Q == 100
WQ == 100000
DQ == 100000

\* ------------------------------------------------------------ arithmetic
Abs(x) == IF x < 0 THEN -x ELSE x

Min(a, b) == IF a <= b THEN a ELSE b

RECURSIVE GCD(_, _)
GCD(a, b) == IF b = 0 THEN a ELSE GCD(b, a % b)

\* Rationals <<n, d>>, d > 0, in lowest terms.
Rat(n, d) ==
    LET s == IF d < 0 THEN -1 ELSE 1
        g == GCD(Abs(n), Abs(d))
    IN  <<(s * n) \div g, (s * d) \div g>>

RatAdd(a, b) == Rat(a[1] * b[2] + b[1] * a[2], a[2] * b[2])

RatSub(a, b) == Rat(a[1] * b[2] - b[1] * a[2], a[2] * b[2])

RatDiv(a, b) == Rat(a[1] * b[2], a[2] * b[1])

\* math.sqrt on non-negative fixed-point values: floor of the square root.
RECURSIVE SqrtSearch(_, _, _)
SqrtSearch(n, lo, hi) ==
    IF hi - lo <= 1 THEN lo
    ELSE LET mid == (lo + hi) \div 2
         IN  IF mid * mid <= n THEN SqrtSearch(n, mid, hi)
             ELSE SqrtSearch(n, lo, mid)

sqrt(n) == SqrtSearch(n, 0, 46340)

\* z * (27 + z^2) / (27 + 9 * z^2) for z in units of 1/Q, |z| <= 3.
TanhPade(z) == (z * (27 * Q * Q + z * z)) \div (27 * Q * Q + 9 * z * z)

\* math.tanh(num / den) in units of 1/Q: the Pade approximant of tanh on
\* [-3, 3] (within 0.03 of tanh), -1 and 1 outside; odd up to rounding and
\* non-decreasing.
tanh(num, den) ==
    IF num >= 3 * den THEN Q
    ELSE IF num <= -3 * den THEN -Q
    ELSE TanhPade((Q * num) \div den)

\* x ** n for a factor x in units of 1/Q and a natural exponent n.
RECURSIVE Pow(_, _)
Pow(x, n) == IF n = 0 THEN Q ELSE (x * Pow(x, n - 1)) \div Q

RECURSIVE Sum(_)
Sum(s) == IF s = <<>> THEN 0 ELSE Head(s) + Sum(Tail(s))

\* ------------------------------------------------------------ data model
GameIds == 1 .. MaxGames

\* The hyperparameters <<gamma, beta, rho>> a run passes to every call (the
\* documented domain of each is [0, inf[).
Hyperparameters == { <<40, 21, 1>>, <<40, 0, 1>>, <<0, 21, 0>> }

\* The finishing orders handed to createGame.  Players 1..4 are rows of the
\* players table, id 5 is a player id that is not in the table.
Rankings ==
    { <<>>, <<4>>, <<1, 2>>, <<2, 1>>, <<1, 2, 3>>, <<3, 3>>, <<2, 5>> }

\* A row of the players table.
Player(skill, deviation, history, weight, games) ==
    [SKILL |-> skill, SKILL_DEVIATION |-> deviation, PERF_HISTORY |-> history,
     PERF_WEIGHT |-> weight, GAMES |-> games]

\* The state of a player that has just been added to the database.
NewPlayer == Player(START_SKILL, START_DEVIATION, <<>>, <<>>, <<>>)

\* The players table as loaded from the database file: three rated
\* players (2 and 3 with the same rating) and one new player.
LoadedPlayers ==
    (1 :> Player(1400, 100, <<1400>>, <<200>>, <<>>)) @@
    (2 :> Player(1600, 100, <<1600>>, <<200>>, <<>>)) @@
    (3 :> Player(1600, 100, <<1600>>, <<200>>, <<>>)) @@
    (4 :> NewPlayer)

\* ------------------------------------------------------------ root finder
\* The first bracket [-FirstBracket, FirstBracket] and the number of times
\* the root finder doubles it before giving up.
FirstBracket == 2048
MaxExpand == 3

\* getPerfEstimation.estimationFunction: the sum over players_ranking[from..to]
\* of 1/SKILL_DEVIATION * (tanh(..) + sign), in units of 1/(DQ*Q).
RECURSIVE PerfTerms(_, _, _, _, _)
PerfTerms(players_ranking, from, to, x, sign) ==
    IF from > to THEN 0
    ELSE (DQ \div players_ranking[from].SKILL_DEVIATION)
             * (tanh(100 * (x - players_ranking[from].SKILL),
                     110 * players_ranking[from].SKILL_DEVIATION) + sign * Q)
         + PerfTerms(players_ranking, from + 1, to, x, sign)

\* getAverageSkillEstimation.estimationFunction: the sum over the history,
\* in units of 1/(WQ*Q).
RECURSIVE SkillTerms(_, _, _, _)
SkillTerms(player_dict, b, game_index, x) ==
    IF game_index > Len(player_dict.PERF_WEIGHT) THEN 0
    ELSE player_dict.PERF_WEIGHT[game_index] * ((b * 1814) \div 1000)
             * tanh(100 * (x - player_dict.PERF_HISTORY[game_index]), 110 * b)
         + SkillTerms(player_dict, b, game_index + 1, x)

\* The function handed to the root finder, as data: fn.kind tells which of
\* the two estimation functions it is.
estimationFunction(fn, x) ==
    IF fn.kind = "perf"
    THEN PerfTerms(fn.players_ranking, 1, fn.selected_player_index, x, -1)
         + PerfTerms(fn.players_ranking, fn.selected_player_index,
                     Len(fn.players_ranking), x, 1)
    ELSE fn.player_dict.PERF_WEIGHT[1] * (x - fn.player_dict.PERF_HISTORY[1]) * Q
         + SkillTerms(fn.player_dict, fn.b, 1, x)

\* The bracket the root finder settles on, 0 when the budget runs out.
RECURSIVE Bracket(_, _, _)
Bracket(fn, b, n) ==
    IF estimationFunction(fn, -b) <= 0 /\ estimationFunction(fn, b) >= 0 THEN b
    ELSE IF n = 0 THEN 0
    ELSE Bracket(fn, 2 * b, n - 1)

RECURSIVE Bisect(_, _, _)
Bisect(fn, lo, hi) ==
    IF hi - lo <= 1 THEN hi
    ELSE IF estimationFunction(fn, (lo + hi) \div 2) < 0
    THEN Bisect(fn, (lo + hi) \div 2, hi)
    ELSE Bisect(fn, lo, (lo + hi) \div 2)

BisectIn(fn, b) ==
    IF b = 0 THEN [ok |-> FALSE, x |-> 0] ELSE [ok |-> TRUE, x |-> Bisect(fn, -b, b)]

\* resources.utils.findZeroBisection: widens the bracket until the function
\* changes sign over it, then bisects down to one rating point; raises when
\* no bracket is found within the budget.
findZeroBisection(fn) == BisectIn(fn, Bracket(fn, FirstBracket, MaxExpand))

getPerfEstimation(players_ranking, selected_player_index) ==
    findZeroBisection([kind |-> "perf", players_ranking |-> players_ranking,
                       selected_player_index |-> selected_player_index])

getAverageSkillEstimation(player_dict, b) ==
    findZeroBisection([kind |-> "skill", player_dict |-> player_dict, b |-> b])

\* ---------------------------------------------------------------- diffuse
\* lines 109-118: the writes of diffuse, given kappa, wg and wl.
DiffuseWrite(player_dict, kappa, r, wg, wl) ==
    LET h0 == IF wg + wl # 0
              THEN (wg * player_dict.PERF_HISTORY[1] + wl * player_dict.SKILL)
                       \div (wg + wl)
              ELSE player_dict.PERF_HISTORY[1] + player_dict.SKILL
        w0 == IF wg + wl # 0 THEN (kappa * (wg + wl)) \div Q ELSE 0
    IN  [player_dict EXCEPT
            !.PERF_HISTORY = [@ EXCEPT ![1] = h0],
            !.PERF_WEIGHT =
                [i \in 1 .. Len(@) |->
                    ((IF i = 1 THEN w0 ELSE @[i]) * Pow(kappa, 1 + r)) \div Q],
            !.SKILL_DEVIATION = sqrt((@ * @ * kappa) \div Q)]

\* lines 105-106: wg and wl.
DiffuseWeights(player_dict, kappa, r) ==
    DiffuseWrite(player_dict, kappa, r,
                 (Pow(kappa, r) * player_dict.PERF_WEIGHT[1]) \div Q,
                 ((Q - Pow(kappa, r)) * Sum(player_dict.PERF_WEIGHT)) \div Q)

\* diffuse(player_dict, gamma, rho): [status, player].  The division by a
\* zero SKILL_DEVIATION raises ZeroDivisionError and the reads of
\* PERF_WEIGHT[0] and PERF_HISTORY[0] raise IndexError on an empty list, all
\* before the first write.  kappa = 1 / (1 + (gamma / SKILL_DEVIATION) ** 2).
diffuse(player_dict, g, r) ==
    IF player_dict.SKILL_DEVIATION = 0
    THEN [status |-> "ZeroDivisionError", player |-> player_dict]
    ELSE IF player_dict.PERF_WEIGHT = <<>> \/ player_dict.PERF_HISTORY = <<>>
    THEN [status |-> "IndexError", player |-> player_dict]
    ELSE [status |-> "ok",
          player |->
            DiffuseWeights(player_dict,
                (Q * player_dict.SKILL_DEVIATION * player_dict.SKILL_DEVIATION)
                    \div (player_dict.SKILL_DEVIATION * player_dict.SKILL_DEVIATION
                          + g * g),
                r)]

\* ----------------------------------------------------------------- update
\* The outcome of an update that raised.
UpdateRaised(st, players) ==
    [status |-> st, players |-> players,
     dict |-> [SKILL |-> 0, SKILL_DEVIATION |-> 0]]

\* line 133 without the copy of line 85: SKILL is assigned to the live row,
\* where the later estimates of the same game read it.
UpdateSkillLive(players_table, player_id, s) ==
    IF ~s.ok THEN UpdateRaised("ConvergenceError", players_table)
    ELSE [status |-> "ok",
          players |-> [players_table EXCEPT ![player_id].SKILL = s.x],
          dict |-> [SKILL |-> s.x,
                    SKILL_DEVIATION |-> players_table[player_id].SKILL_DEVIATION]]

\* line 133: the new SKILL is assigned to the copy, which update returns.
UpdateSkill(players_table, player_id, s) ==
    IF ~s.ok THEN UpdateRaised("ConvergenceError", players_table)
    ELSE [status |-> "ok", players |-> players_table,
          dict |-> [SKILL |-> s.x,
                    SKILL_DEVIATION |-> players_table[player_id].SKILL_DEVIATION]]

\* lines 131-133, on the table after the append of line 130.
UpdateWeight(players_table, player_id, b) ==
    IF b = 0 THEN UpdateRaised("ZeroDivisionError", players_table)
    ELSE UpdateSkill(
             [players_table EXCEPT ![player_id].PERF_WEIGHT = Append(@, WQ \div (b * b))],
             player_id,
             getAverageSkillEstimation(
                 [players_table[player_id] EXCEPT
                     !.PERF_WEIGHT = Append(@, WQ \div (b * b))], b))

\* lines 130-133, given the performance estimate p.
UpdateHistory(players_table, player_id, p, b) ==
    IF ~p.ok THEN UpdateRaised("ConvergenceError", players_table)
    ELSE UpdateWeight([players_table EXCEPT ![player_id].PERF_HISTORY = Append(@, p.x)],
                      player_id, b)

\* update(players_ranking, selected_player_index, beta), called on the list
\* [copy(players_table[player_id]) for player_id in RANKING].  The copies
\* are shallow: PERF_HISTORY and PERF_WEIGHT of a copy are the live lists of
\* the table, so the appends land in the table; the assignment of SKILL
\* lands in the copy only.  Returns [status, players, dict]: the table after
\* the call and the scalar fields of the returned dict.
update(players_table, ranking, selected_player_index, b) ==
    UpdateHistory(players_table, ranking[selected_player_index],
        getPerfEstimation([k \in 1 .. Len(ranking) |-> players_table[ranking[k]]],
                          selected_player_index),
        b)

\* ------------------------------------------------------------ processGame
\* sorted(ranking_skills, reverse=True)
RECURSIVE InsertDesc(_, _)
InsertDesc(x, s) ==
    IF s = <<>> THEN <<x>>
    ELSE IF x > Head(s) THEN <<x>> \o s
    ELSE <<Head(s)>> \o InsertDesc(x, Tail(s))

RECURSIVE sorted(_)
sorted(s) == IF s = <<>> THEN <<>> ELSE InsertDesc(Head(s), sorted(Tail(s)))

\* line 74: the conservative skill of each participant, in finishing order.
rankingSkills(players_table, ranking) ==
    [k \in 1 .. Len(ranking) |->
        players_table[ranking[k]].SKILL - 3 * players_table[ranking[k]].SKILL_DEVIATION]

\* line 76 dividing by 3 whatever the number of participants.
MatchingShareOfThree(ranking_skills, sorted_skill, top) ==
    Rat(Cardinality({k \in 1 .. top : ranking_skills[k] = sorted_skill[k]}), 3)

\* line 76: the share of the first three slots at which the two lists agree.
MatchingShare(ranking_skills, sorted_skill, top) ==
    Rat(Cardinality({k \in 1 .. top : ranking_skills[k] = sorted_skill[k]}), top)

\* lines 74-76: the accuracy contribution, a rational.  Only evaluated on a
\* non-empty ranking of known players.
resultPredicted(players_table, ranking) ==
    MatchingShare(rankingSkills(players_table, ranking),
                  sorted(rankingSkills(players_table, ranking)),
                  Min(3, Len(ranking)))

\* line 74 moved below the diffusion loop: no lookup before the first write.
NoLookup(players_table, ranking) == FALSE

\* line 74: players_table[player_id] raises KeyError on an id that is not a
\* key of the table.
UnknownPlayer(players_table, ranking) ==
    \E k \in 1 .. Len(ranking) : ranking[k] \notin DOMAIN players_table

\* line 80: SKILL_DEVIATION = sqrt(SKILL_DEVIATION ** 2 + beta ** 2)
Inflate(player_dict, b) ==
    [player_dict EXCEPT !.SKILL_DEVIATION = sqrt(@ * @ + b * b)]

\* lines 78-80: diffusion and deviation inflation, participant by
\* participant, on the live table; stops at the first exception.
RECURSIVE DiffuseLoop(_, _, _, _, _, _)
RECURSIVE DiffuseNext(_, _, _, _, _, _, _)
DiffuseNext(players_table, ranking, k, g, b, r, d) ==
    IF d.status # "ok" THEN [status |-> d.status, players |-> players_table]
    ELSE DiffuseLoop([players_table EXCEPT ![ranking[k]] = Inflate(d.player, b)],
                     ranking, k + 1, g, b, r)

DiffuseLoop(players_table, ranking, k, g, b, r) ==
    IF k > Len(ranking) THEN [status |-> "ok", players |-> players_table]
    ELSE IF ranking[k] \notin DOMAIN players_table
    THEN [status |-> "KeyError", players |-> players_table]
    ELSE DiffuseNext(players_table, ranking, k, g, b, r,
                     diffuse(players_table[ranking[k]], g, r))

\* lines 82-85: the update loop over the indices in `order`; new_dicts maps
\* an index to the dict update returned for it.
RECURSIVE UpdateLoop(_, _, _, _, _, _)
RECURSIVE UpdateNext(_, _, _, _, _, _)
UpdateNext(new_dicts, ranking, order, k, b, u) ==
    IF u.status # "ok"
    THEN [status |-> u.status, players |-> u.players, new_dicts |-> new_dicts]
    ELSE UpdateLoop(u.players, (order[k] :> u.dict) @@ new_dicts,
                    ranking, order, k + 1, b)

UpdateLoop(players_table, new_dicts, ranking, order, k, b) ==
    IF k > Len(order)
    THEN [status |-> "ok", players |-> players_table, new_dicts |-> new_dicts]
    ELSE UpdateNext(new_dicts, ranking, order, k, b,
                    update(players_table, ranking, order[k], b))

\* lines 87-89: the apply loop over the indices in `order`.  The dict that
\* replaces the row carries the lists of the row it was copied from.
RECURSIVE ApplyLoop(_, _, _, _, _)
ApplyLoop(players_table, new_dicts, ranking, order, k) ==
    IF k > Len(order) THEN players_table
    ELSE ApplyLoop([players_table EXCEPT
                        ![ranking[order[k]]].SKILL = new_dicts[order[k]].SKILL,
                        ![ranking[order[k]]].SKILL_DEVIATION =
                            new_dicts[order[k]].SKILL_DEVIATION],
                   new_dicts, ranking, order, k + 1)

\* range(len(game_dict['RANKING'])) and enumerate(game_dict['RANKING'])
Range(ranking) == [k \in 1 .. Len(ranking) |-> k]

\* The outcome of a processGame call that raised.
Raised(game_dict, st, players) ==
    [status |-> st, players |-> players, processed |-> game_dict.PROCESSED,
     ret |-> <<0, 1>>]

\* lines 87-93
AfterUpdate(game_dict, apply_order, result_predicted, u) ==
    IF u.status # "ok" THEN Raised(game_dict, u.status, u.players)
    ELSE [status |-> "ok",
          players |-> ApplyLoop(u.players, u.new_dicts, game_dict.RANKING,
                                apply_order, 1),
          processed |-> TRUE,
          ret |-> result_predicted]

\* lines 82-93
AfterDiffuse(game_dict, b, update_order, apply_order, result_predicted, d) ==
    IF d.status # "ok" THEN Raised(game_dict, d.status, d.players)
    ELSE AfterUpdate(game_dict, apply_order, result_predicted,
                     UpdateLoop(d.players, <<>>, game_dict.RANKING, update_order, 1, b))

\* processGame with the update loop run over update_order and the apply
\* loop over apply_order.  Returns [status, players, processed, ret].
processGameIn(players_table, game_dict, g, b, r, update_order, apply_order) ==
    IF UnknownPlayer(players_table, game_dict.RANKING)
    THEN Raised(game_dict, "KeyError", players_table)
    ELSE IF game_dict.RANKING = <<>>
    THEN Raised(game_dict, "ZeroDivisionError", players_table)
    ELSE AfterDiffuse(game_dict, b, update_order, apply_order,
                      resultPredicted(players_table, game_dict.RANKING),
                      DiffuseLoop(players_table, game_dict.RANKING, 1, g, b, r))

processGame(players_table, game_dict, g, b, r) ==
    processGameIn(players_table, game_dict, g, b, r,
                  Range(game_dict.RANKING), Range(game_dict.RANKING))

\* ----------------------------------------------------------- processGames
\* line 46 without the test of PROCESSED.
NeverProcessed(game_dict) == FALSE

\* line 46: the guard of the dispatch.
isProcessed(game_dict) == game_dict.PROCESSED

\* lines 43-48: the loop over games_ordered_ids from position k on; acc is
\* [predicted_output, total_processed_games, dispatched, applied]: dispatched
\* are the game ids handed to processGame, in order, and applied those for
\* which processGame returned.
RECURSIVE GamesLoop(_, _, _, _, _, _, _, _)
RECURSIVE GamesNext(_, _, _, _, _, _, _, _)
GamesNext(games, ids, k, g, b, r, acc, res) ==
    IF res.status # "ok"
    THEN [status |-> res.status, players |-> res.players, games |-> games,
          acc |-> [acc EXCEPT !.dispatched = Append(@, ids[k])]]
    ELSE GamesLoop(res.players, [games EXCEPT ![ids[k]].PROCESSED = res.processed],
                   ids, k + 1, g, b, r,
                   [predicted_output |-> RatAdd(acc.predicted_output, res.ret),
                    total_processed_games |-> acc.total_processed_games + 1,
                    dispatched |-> Append(acc.dispatched, ids[k]),
                    applied |-> Append(acc.applied, ids[k])])

GamesLoop(players, games, ids, k, g, b, r, acc) ==
    IF k > Len(ids)
    THEN [status |-> "ok", players |-> players, games |-> games, acc |-> acc]
    ELSE IF ids[k] \notin DOMAIN games
    THEN [status |-> "KeyError", players |-> players, games |-> games, acc |-> acc]
    ELSE IF isProcessed(games[ids[k]])
    THEN GamesLoop(players, games, ids, k + 1, g, b, r, acc)
    ELSE GamesNext(games, ids, k, g, b, r, acc,
                   processGame(players, games[ids[k]], g, b, r))

\* lines 53-58: the success rate.
SuccessRate(l) ==
    [status |-> l.status, players |-> l.players, games |-> l.games,
     dispatched |-> l.acc.dispatched, applied |-> l.acc.applied,
     ret |-> IF l.status = "ok" /\ l.acc.total_processed_games # 0
             THEN RatDiv(l.acc.predicted_output, <<l.acc.total_processed_games, 1>>)
             ELSE <<0, 1>>]

\* processGames(..., games_ordered_ids): [status, players, games, ret,
\* dispatched, applied].  The optional dump to the database file is outside the model.
processGames(players, games, g, b, r, games_ordered_ids) ==
    SuccessRate(GamesLoop(players, games, games_ordered_ids, 1, g, b, r,
                          [predicted_output |-> <<0, 1>>,
                           total_processed_games |-> 0, dispatched |-> <<>>,
                           applied |-> <<>>]))

\* ------------------------------------------------------------- createGame
\* lines 196-197: the loop appending the game id to each participant's GAMES.
RECURSIVE GamesAppendLoop(_, _, _, _)
GamesAppendLoop(players, game_id, game_ranking, k) ==
    IF k > Len(game_ranking) THEN [status |-> "ok", players |-> players]
    ELSE IF game_ranking[k] \notin DOMAIN players
    THEN [status |-> "KeyError", players |-> players]
    ELSE GamesAppendLoop(
             [players EXCEPT ![game_ranking[k]].GAMES = Append(@, game_id)],
             game_id, game_ranking, k + 1)

\* createGame(games_table, players_table, game_id, game_date, game_ranking):
\* [status, players, games].  The game date takes no part in the ranking.
createGame(games, players, game_id, game_ranking) ==
    [loop |-> GamesAppendLoop(players, game_id, game_ranking, 1),
     games |-> (game_id :> [ID |-> game_id, RANKING |-> game_ranking,
                            PROCESSED |-> FALSE]) @@ games]

\* ------------------------------------------------------------ stake sizer
\* The stake clamped at zero, as the widget displays it.
applyKellyClamped(p, o) ==
    IF RatSub(p, RatDiv(RatSub(<<1, 1>>, p), o))[1] < 0 THEN <<0, 1>>
    ELSE RatSub(p, RatDiv(RatSub(<<1, 1>>, p), o))

\* applyKellyCriterion(win_prob, odds) on rationals.
applyKellyCriterion(p, o) == RatSub(p, RatDiv(RatSub(<<1, 1>>, p), o))

\* Win probabilities 0, 0.1, .. 1 and odds 0.5, 1, .. 4.
WinProbs == {Rat(n, 10) : n \in 0 .. 10}

OddsValues == {Rat(n, 2) : n \in 1 .. 8}

\* ------------------------------------------------------------------ state
VARIABLES
    players_table,   \* database PLAYERS table: player id -> row
    games_table,     \* database GAMES table: game id -> row
    gamma, beta, rho,\* the hyperparameters of the run
    last,            \* the last call: operation, arguments, outcome, tables before
    raised,          \* number of calls that raised so far; the caller goes on
                     \* after an exception, up to MaxRaised of them
    dispatches,      \* game id -> number of processGame calls on it
    applications,    \* game id -> number of those calls that ran to the end
    win_prob, odds,  \* the arguments of applyKellyCriterion
    stake            \* its result, <<>> before the call

vars == <<players_table, games_table, gamma, beta, rho, last, raised, dispatches,
          applications, win_prob, odds, stake>>

Raise(status) == IF status = "ok" THEN raised ELSE raised + 1

NoCall ==
    [op |-> "none", status |-> "ok", ret |-> <<0, 1>>, game_id |-> 0, ids |-> <<>>,
     dispatched |-> <<>>, players |-> LoadedPlayers, games |-> <<>>]

Init ==
    /\ players_table = LoadedPlayers
    /\ games_table = <<>>
    /\ \E h \in Hyperparameters : gamma = h[1] /\ beta = h[2] /\ rho = h[3]
    /\ last = NoCall
    /\ raised = 0
    /\ dispatches = [g \in GameIds |-> 0]
    /\ applications = [g \in GameIds |-> 0]
    /\ win_prob = <<0, 1>>
    /\ odds = <<1, 1>>
    /\ stake = <<>>

CreateGameDone(game_id, res) ==
    /\ players_table' = res.loop.players
    /\ games_table' = res.games
    /\ last' = [op |-> "createGame", status |-> res.loop.status, ret |-> <<0, 1>>,
                game_id |-> game_id, ids |-> <<>>, dispatched |-> <<>>,
                players |-> players_table, games |-> games_table]
    /\ raised' = Raise(res.loop.status)

\* The game log ingestion creates a game under the next unused id.
CreateGame(game_id, game_ranking) ==
    /\ raised < MaxRaised
    /\ game_id \notin DOMAIN games_table
    /\ \A g \in GameIds : g < game_id => g \in DOMAIN games_table
    /\ CreateGameDone(game_id,
                      createGame(games_table, players_table, game_id, game_ranking))
    /\ UNCHANGED <<gamma, beta, rho, dispatches, applications, win_prob, odds, stake>>

ProcessGameDone(game_id, res) ==
    /\ players_table' = res.players
    /\ games_table' = [games_table EXCEPT ![game_id].PROCESSED = res.processed]
    /\ last' = [op |-> "processGame", status |-> res.status, ret |-> res.ret,
                game_id |-> game_id, ids |-> <<>>, dispatched |-> <<game_id>>,
                players |-> players_table, games |-> games_table]
    /\ raised' = Raise(res.status)
    /\ dispatches' = [dispatches EXCEPT ![game_id] = @ + 1]
    /\ applications' = [applications EXCEPT
                           ![game_id] = IF res.status = "ok" THEN @ + 1 ELSE @]

\* A caller invokes processGame on a stored game.
ProcessGame(game_id) ==
    /\ raised < MaxRaised
    /\ game_id \in DOMAIN games_table
    /\ dispatches[game_id] < MaxApply
    /\ ProcessGameDone(game_id,
           processGame(players_table, games_table[game_id], gamma, beta, rho))
    /\ UNCHANGED <<gamma, beta, rho, win_prob, odds, stake>>

\* number of occurrences of x in the sequence s
Count(s, x) == Cardinality({k \in 1 .. Len(s) : s[k] = x})

BatchIds == UNION {[1 .. n -> GameIds] : n \in 0 .. MaxBatch}

ProcessGamesDone(ids, res) ==
    /\ players_table' = res.players
    /\ games_table' = res.games
    /\ last' = [op |-> "processGames", status |-> res.status, ret |-> res.ret,
                game_id |-> 0, ids |-> ids, dispatched |-> res.dispatched,
                players |-> players_table, games |-> games_table]
    /\ raised' = Raise(res.status)
    /\ dispatches' = [g \in GameIds |-> dispatches[g] + Count(res.dispatched, g)]
    /\ applications' = [g \in GameIds |-> applications[g] + Count(res.applied, g)]

\* A caller invokes processGames on a sequence of game ids.
ProcessGames(ids) ==
    /\ raised < MaxRaised
    /\ \A k \in 1 .. Len(ids) :
          (ids[k] \in DOMAIN games_table /\ ~games_table[ids[k]].PROCESSED)
              => dispatches[ids[k]] < MaxApply
    /\ ProcessGamesDone(ids,
           processGames(players_table, games_table, gamma, beta, rho, ids))
    /\ UNCHANGED <<gamma, beta, rho, win_prob, odds, stake>>

Next ==
    \/ \E game_id \in GameIds, game_ranking \in Rankings :
          CreateGame(game_id, game_ranking)
    \/ \E game_id \in GameIds : ProcessGame(game_id)
    \/ \E ids \in BatchIds : ProcessGames(ids)

Spec == Init /\ [][Next]_vars

\* The program as the batch driver runs it: games are created and handed to
\* processGames only.
NextBatch ==
    \/ \E game_id \in GameIds, game_ranking \in Rankings :
          CreateGame(game_id, game_ranking)
    \/ \E ids \in BatchIds : ProcessGames(ids)

SpecBatch == Init /\ [][NextBatch]_vars

\* The stake sizer on its own: the arguments are drawn at the start, the
\* call computes the stake.
InitKelly ==
    /\ players_table = LoadedPlayers
    /\ games_table = <<>>
    /\ gamma = 40 /\ beta = 21 /\ rho = 1
    /\ last = NoCall
    /\ raised = 0
    /\ dispatches = [g \in GameIds |-> 0]
    /\ applications = [g \in GameIds |-> 0]
    /\ win_prob \in WinProbs
    /\ odds \in OddsValues
    /\ stake = <<>>

ApplyKelly ==
    /\ stake = <<>>
    /\ stake' = applyKellyCriterion(win_prob, odds)
    /\ UNCHANGED <<players_table, games_table, gamma, beta, rho, last, raised,
                   dispatches, applications, win_prob, odds>>

NextKelly == ApplyKelly

SpecKelly == InitKelly /\ [][NextKelly]_vars

\* ================================================================ claims
\* The row of the game the last call was about, before the call.
LastGame == last.games[last.game_id]

LastRanking == LastGame.RANKING

CalledProcessGame == last.op = "processGame"

HasUnknownId(ranking, players) ==
    \E k \in 1 .. Len(ranking) : ranking[k] \notin DOMAIN players

HasDuplicateId(ranking) ==
    \E j, k \in 1 .. Len(ranking) : j # k /\ ranking[j] = ranking[k]

WellFormed(ranking, players) ==
    ranking # <<>> /\ ~HasUnknownId(ranking, players) /\ ~HasDuplicateId(ranking)

Orders(n) == {f \in [1 .. n -> 1 .. n] : \A i, j \in 1 .. n : f[i] = f[j] => i = j}

\* ---------------------------------------------------------------- C1
\* C1: processGame on a game whose PROCESSED flag is already true changes no
\* player record and returns the accuracy contribution 0.
C1_ProcessedIsNoOp ==
    (CalledProcessGame /\ LastGame.PROCESSED)
        => (players_table = last.players /\ last.ret = <<0, 1>>)

\* ---------------------------------------------------------------- C2
\* C2: PERF_HISTORY and PERF_WEIGHT of every player have the same length in
\* every reachable state, also after a call that raised, for every beta of
\* the documented domain.
C2_SameLength ==
    \A player_id \in DOMAIN players_table :
        Len(players_table[player_id].PERF_HISTORY)
            = Len(players_table[player_id].PERF_WEIGHT)

\* ---------------------------------------------------------------- C3
\* The table after the diffusion loop of the last processGame call.
Diffused == DiffuseLoop(last.players, LastRanking, 1, gamma, beta, rho).players

\* C3: in a processGame call on distinct participants, the performance
\* estimate appended for each participant is the one computed from the
\* post-diffusion skill and deviation of all participants, and the table the
\* call leaves is the same for every order of the update loop and every order
\* of the apply loop.
C3_OrderIndependent ==
    (CalledProcessGame /\ last.status = "ok" /\ WellFormed(LastRanking, last.players))
        => /\ \A k \in 1 .. Len(LastRanking) :
                 LET h == players_table[LastRanking[k]].PERF_HISTORY
                 IN  h[Len(h)]
                       = getPerfEstimation(
                             [j \in 1 .. Len(LastRanking) |-> Diffused[LastRanking[j]]],
                             k).x
           /\ \A update_order, apply_order \in Orders(Len(LastRanking)) :
                 processGameIn(last.players, LastGame, gamma, beta, rho,
                               update_order, apply_order).players = players_table

\* A game of three distinct participants has been applied and has moved the
\* skill of one of them.
C3_Witness ==
    /\ CalledProcessGame /\ last.status = "ok"
    /\ WellFormed(LastRanking, last.players) /\ Len(LastRanking) = 3
    /\ \E k \in 1 .. 3 :
          players_table[LastRanking[k]].SKILL # last.players[LastRanking[k]].SKILL

\* ---------------------------------------------------------------- C4
\* The ids of a sequence that processGames has to apply: the first
\* occurrence of each id whose game is unprocessed before the call.
RECURSIVE ToApply(_, _, _)
ToApply(ids, games, k) ==
    IF k > Len(ids) THEN <<>>
    ELSE IF ~games[ids[k]].PROCESSED /\ \A j \in 1 .. k - 1 : ids[j] # ids[k]
    THEN <<ids[k]>> \o ToApply(ids, games, k + 1)
    ELSE ToApply(ids, games, k + 1)

\* C4: over any sequence of processGames calls every game is applied at most
\* once, and exactly once when it is processed; a call that returns has
\* applied, in the order of the sequence, the games that were unprocessed
\* before it, has skipped the others, and leaves every game of the sequence
\* processed.
C4_ExactlyOnce ==
    /\ \A g \in GameIds :
          applications[g]
              = IF g \in DOMAIN games_table /\ games_table[g].PROCESSED THEN 1 ELSE 0
    /\ (last.op = "processGames" /\ last.status = "ok")
          => /\ last.dispatched = ToApply(last.ids, last.games, 1)
             /\ \A k \in 1 .. Len(last.ids) : games_table[last.ids[k]].PROCESSED

\* A call on a sequence that names the same unprocessed game twice has
\* returned, and a later call on a processed game has returned.
C4_Witness ==
    /\ last.op = "processGames" /\ last.status = "ok"
    /\ Len(last.ids) = 2 /\ last.ids[1] = last.ids[2]
    /\ last.games[last.ids[1]].PROCESSED
    /\ applications[last.ids[1]] = 1

\* ---------------------------------------------------------------- C5
\* An estimate failed in the last processGame call: the root finder raised,
\* or the weight 1 / beta ** 2 could not be computed.
EstimateFailed ==
    \/ last.status = "ConvergenceError"
    \/ last.status = "ZeroDivisionError" /\ LastRanking # <<>> /\ beta = 0

\* C5: processGame is all-or-nothing: when an estimate fails no record
\* differs from its value before the call and the game stays unprocessed;
\* when the call returns every participant has a new sample and the game is
\* processed.
C5_AllOrNothing ==
    CalledProcessGame
        => /\ EstimateFailed
                 => (players_table = last.players
                     /\ ~games_table[last.game_id].PROCESSED)
           /\ last.status = "ok"
                 => /\ games_table[last.game_id].PROCESSED
                    /\ \A k \in 1 .. Len(LastRanking) :
                          Len(players_table[LastRanking[k]].PERF_HISTORY)
                              > Len(last.players[LastRanking[k]].PERF_HISTORY)

\* ---------------------------------------------------------------- C6
\* The last call left the tables as they were.
NothingChanged == players_table = last.players /\ games_table = last.games

Conservative ==
    [k \in 1 .. Len(LastRanking) |->
        last.players[LastRanking[k]].SKILL
            - 3 * last.players[LastRanking[k]].SKILL_DEVIATION]

\* The participant (as a finishing position) ranked k-th by conservative
\* skill, descending, equal skills in finishing order (the order the sort of
\* the participants yields).
Before(i, j) ==
    Conservative[i] > Conservative[j] \/ (Conservative[i] = Conservative[j] /\ i < j)

RankedAt(k) ==
    CHOOSE j \in 1 .. Len(LastRanking) :
        Cardinality({i \in 1 .. Len(LastRanking) : Before(i, j)}) = k - 1

Top == IF Len(LastRanking) < 3 THEN Len(LastRanking) ELSE 3

\* C7: the accuracy contribution is the number of slots i < min(3, n) at
\* which the player who finished i-th is the player ranked i-th by pre-game
\* conservative skill, divided by min(3, n).
C7_SamePlayer ==
    (CalledProcessGame /\ last.status = "ok")
        => LET hits == Cardinality({k \in 1 .. Top : RankedAt(k) = k})
           IN  last.ret[1] * Top = hits * last.ret[2]

\* v is a k-th largest of the conservative skills.
KthLargest(v, k) ==
    /\ Cardinality({j \in 1 .. Len(LastRanking) : Conservative[j] > v}) < k
    /\ Cardinality({j \in 1 .. Len(LastRanking) : Conservative[j] >= v}) >= k

\* C7 as amended: the accuracy contribution is the number of slots
\* i < min(3, n) at which the conservative skill of the player who finished
\* i-th equals the i-th largest conservative skill of the participants,
\* divided by min(3, n).
C7_SameValue ==
    (CalledProcessGame /\ last.status = "ok")
        => LET hits == Cardinality({k \in 1 .. Top : KthLargest(Conservative[k], k)})
           IN  last.ret[1] * Top = hits * last.ret[2] /\ last.ret[2] > 0

\* A game won by the lowest rated of three players, the other two rated
\* alike, has been applied: one slot of three is counted.
C7_Witness ==
    /\ CalledProcessGame /\ last.status = "ok" /\ Len(LastRanking) = 3
    /\ Conservative[1] < Conservative[2] /\ Conservative[2] = Conservative[3]
    /\ last.ret = <<1, 3>>

\* ---------------------------------------------------------------- C8
\* C8: when a game whose ranking names an id that is not in the players
\* table is created or processed, the player is created before the game is
\* recorded against or applied to it.
C8_UnknownPlayerCreated ==
    (last.op \in {"createGame", "processGame"})
        => \A k \in 1 .. Len(games_table[last.game_id].RANKING) :
              LET player_id == games_table[last.game_id].RANKING[k]
              IN  player_id \notin DOMAIN last.players
                    => /\ last.status = "ok"
                       /\ player_id \in DOMAIN players_table

\* ---------------------------------------------------------------- C9
\* The stake is win_prob - (1 - win_prob) / odds, cross-multiplied.
ExactKelly ==
    /\ stake[2] > 0
    /\ stake[1] * (win_prob[2] * odds[1])
           = stake[2] * (win_prob[1] * odds[1] - (win_prob[2] - win_prob[1]) * odds[2])

\* The stake is negative exactly when win_prob * (odds + 1) < 1.
NegativeKelly ==
    (stake[1] < 0) <=> (win_prob[1] * (odds[1] + odds[2]) < win_prob[2] * odds[2])

\* C9: applyKellyCriterion returns p - (1 - p) / o unclamped; (0.6, 2.0)
\* gives 0.2, (0.5, 1.0) gives 0 and (0.1, 1.5) gives -0.5.
C9_KellyExamples ==
    stake # <<>>
        => /\ ExactKelly /\ NegativeKelly
           /\ (win_prob = <<3, 5>> /\ odds = <<2, 1>>) => stake = <<1, 5>>
           /\ (win_prob = <<1, 2>> /\ odds = <<1, 1>>) => stake = <<0, 1>>
           /\ (win_prob = <<1, 10>> /\ odds = <<3, 2>>) => stake = <<-1, 2>>

\* C9 as amended: the same, with (0.6, 2.0) giving 0.4.
C9_KellyAmended ==
    stake # <<>>
        => /\ ExactKelly /\ NegativeKelly
           /\ (win_prob = <<3, 5>> /\ odds = <<2, 1>>) => stake = <<2, 5>>
           /\ (win_prob = <<1, 2>> /\ odds = <<1, 1>>) => stake = <<0, 1>>
           /\ (win_prob = <<1, 10>> /\ odds = <<3, 2>>) => stake = <<-1, 2>>

\* The stake of a bet that should not be taken has been computed.
C9_Witness == win_prob = <<1, 10>> /\ odds = <<3, 2>> /\ stake = <<-1, 2>>

\* --------------------------------------------------------------- C10
\* C10: processGame runs to completion on every well-formed ranking of
\* players of the table, new players included, for a positive beta.
C10_RunsToCompletion ==
    (CalledProcessGame /\ beta > 0 /\ WellFormed(LastRanking, last.players))
        => (last.status = "ok" /\ games_table[last.game_id].PROCESSED)

====
